---- MODULE Spec2Model ----
(***************************************************************************)
(* Model of great_expectations/core/config_provider.py: the aggregating    *)
(* ConfigurationProvider, its registry, and the four concrete providers.   *)
(*                                                                         *)
(* A dict is a function whose DOMAIN is its key set.  Mutable dicts that   *)
(* outlive a call (os.environ, the caller's runtime_environment dicts)     *)
(* live in `heap`; a value returned by a call is a location: either a      *)
(* reference into the heap or a freshly built dict nobody else holds.      *)
(***************************************************************************)
EXTENDS Integers, Sequences, FiniteSets, TLC

VARIABLES
    heap,        \* contents of the long-lived dicts: os.environ and the callers' dicts
    fs,          \* the file system: what open()/read() do for each path that may hold a file
    _providers,  \* ConfigurationProvider._providers: sequence of instance ids, in registration order
    ret,         \* outcome of the last call made on the module
    held         \* mappings the caller got from EnvironmentConfigurationProvider.get_values and kept

vars == <<heap, fs, _providers, ret, held>>

----------------------------------------------------------------------------
(* Bounds *)

MaxHeld == 2

----------------------------------------------------------------------------
(* Dicts, heap locations, call outcomes *)

EmptyDict == [k \in {} |-> ""]

\* an update in which the keys already present keep their values
UpdateKeepingExisting(values, new) == values @@ new

\* dict.update(new): keys of `new` overwrite
Update(values, new) == new @@ values

EnvKeys == {"X", "Y"}
EnvVals == {"envval", "/opt"}

EnvDicts == UNION {[ks -> EnvVals] : ks \in SUBSET EnvKeys}

Refs == {"environ", "d1", "d2"}

Fresh(d) == [ref |-> "fresh", val |-> d]
At(r) == [ref |-> r, val |-> EmptyDict]
NoLoc == [ref |-> "none", val |-> EmptyDict]

Deref(h, loc) == IF loc.ref \in Refs THEN h[loc.ref] ELSE loc.val

Ok(loc, h) == [status |-> "ok", err |-> "", loc |-> loc, heap |-> h]
Raise(e, h) == [status |-> "raise", err |-> e, loc |-> NoLoc, heap |-> h]

----------------------------------------------------------------------------
(* The substitution engine (ConfigurationSubstitutor): a string that is a  *)
(* placeholder for a key of the mapping is replaced by the value, another  *)
(* string is returned verbatim, a malformed placeholder makes it raise.    *)

Placeholder == ("$X" :> "X") @@ ("$Y" :> "Y")
MalformedPlaceholder == "${"

substitute_config_variable(s, values) ==
    IF s = MalformedPlaceholder THEN [status |-> "raise", err |-> "SubstitutionError", out |-> s]
    ELSE IF s \in DOMAIN Placeholder /\ Placeholder[s] \in DOMAIN values
         THEN [status |-> "ok", err |-> "", out |-> values[Placeholder[s]]]
         ELSE [status |-> "ok", err |-> "", out |-> s]

\* the engine over a sequence of path components or over the values of a dict
substitute_all_config_variables(d, values) ==
    IF \E k \in DOMAIN d : substitute_config_variable(d[k], values).status = "raise"
    THEN [status |-> "raise", err |-> "SubstitutionError", out |-> d]
    ELSE [status |-> "ok", err |-> "",
          out |-> [k \in DOMAIN d |-> substitute_config_variable(d[k], values).out]]

----------------------------------------------------------------------------
(* Provider instances.  The constructors build the records; the field      *)
(* has_substitutor says whether AbstractConfigurationProvider.__init__ ran *)
(* and set self._substitutor.                                              *)

NoPath == <<>>
NoCloudConfig == [base_url |-> "", access_token |-> "", organization_id |-> ""]

AbstractInit(self) == [self EXCEPT !.has_substitutor = TRUE]

Blank(id, kind) ==
    [id |-> id, kind |-> kind, has_substitutor |-> FALSE,
     runtime_environment |-> "none",
     config_variables_file_path |-> NoPath, root_directory |-> NoPath,
     cloud_config |-> NoCloudConfig]

ConfigurationProviderInit(id) ==
    AbstractInit(Blank(id, "ConfigurationProvider"))

RuntimeEnvironmentInit(id, runtime_environment) ==
    AbstractInit([Blank(id, "RuntimeEnvironmentConfigurationProvider")
                    EXCEPT !.runtime_environment = runtime_environment])

EnvironmentInit(id) ==
    AbstractInit(Blank(id, "EnvironmentConfigurationProvider"))

ConfigurationVariablesInit(id, config_variables_file_path, root_directory) ==
    AbstractInit([Blank(id, "ConfigurationVariablesConfigurationProvider")
                    EXCEPT !.config_variables_file_path = config_variables_file_path,
                           !.root_directory = root_directory])

CloudInit(id, cloud_config) ==
    [Blank(id, "CloudConfigurationProvider") EXCEPT !.cloud_config = cloud_config]

----------------------------------------------------------------------------
(* The provider instances the embedding application has constructed.       *)

CloudConfig == [base_url |-> "https://x", access_token |-> "tok", organization_id |-> "org1"]

curdir == <<".">>

Aggregator == ConfigurationProviderInit("agg")

Pool ==
    [id \in {"rt1", "rt2", "env1", "cv1", "cv2", "cv3", "cloud1"} |->
        CASE id = "rt1"    -> RuntimeEnvironmentInit(id, "d1")
          [] id = "rt2"    -> RuntimeEnvironmentInit(id, "d2")
          [] id = "env1"   -> EnvironmentInit(id)
          [] id = "cv1"    -> ConfigurationVariablesInit(id, <<"cv.yml">>, NoPath)
          [] id = "cv2"    -> ConfigurationVariablesInit(id, <<"$X", "cv.yml">>, <<"/r">>)
          [] id = "cv3"    -> ConfigurationVariablesInit(id, <<"${", "cv.yml">>, NoPath)
          [] id = "cloud1" -> CloudInit(id, CloudConfig)]

Instance(id) == IF id = "agg" THEN Aggregator ELSE Pool[id]

Kinds == {Pool[id].kind : id \in DOMAIN Pool}

CVIds == {id \in DOMAIN Pool : Pool[id].kind = "ConfigurationVariablesConfigurationProvider"}

----------------------------------------------------------------------------
(* Files.  A file state says what open() and read() do (err is the errno   *)
(* of the OSError, "" when the text is read) and what the text holds.      *)

NullDoc == [kind |-> "null", map |-> EmptyDict]
MalformedDoc == [kind |-> "malformed", map |-> EmptyDict]
MapDoc(d) == [kind |-> "map", map |-> d]

FileError(e) == [err |-> e, doc |-> NullDoc]
FileText(doc) == [err |-> "", doc |-> doc]

NotFound == FileError("ENOENT")

FileMaps == {EmptyDict, ("X" :> "file") @@ ("Z" :> "$Y"), ("Z" :> "${")}

FileStates ==
    {FileError(e) : e \in {"ENOENT", "EACCES", "EISDIR", "EIO"}}
        \cup {FileText(NullDoc), FileText(MalformedDoc)}
        \cup {FileText(MapDoc(d)) : d \in FileMaps}

FsPaths == {<<".", "cv.yml">>, <<"/opt", "cv.yml">>}

\* the states the second file takes; the first takes them all
FewFileStates == {NotFound, FileError("EACCES"), FileText(MapDoc(("X" :> "file") @@ ("Z" :> "$Y")))}

FileStatesAt(p) == IF p = <<".", "cv.yml">> THEN FileStates ELSE FewFileStates

\* open(var_path) followed by read(): a path that holds no file is ENOENT
OpenRead(fsys, var_path) == IF var_path \in DOMAIN fsys THEN fsys[var_path] ELSE NotFound

\* yaml.load(contents): None for an empty document
YamlLoad(doc) ==
    CASE doc.kind = "malformed" -> [status |-> "raise", err |-> "YAMLError", none |-> FALSE, map |-> EmptyDict]
      [] doc.kind = "null"      -> [status |-> "ok", err |-> "", none |-> TRUE, map |-> EmptyDict]
      [] OTHER                  -> [status |-> "ok", err |-> "", none |-> FALSE, map |-> doc.map]

AbsRoots == {"/", "/r", "/opt"}

isabs(p) == Len(p) > 0 /\ p[1] \in AbsRoots

join(a, b) == IF isabs(b) THEN b ELSE a \o b

\* the path expression, one component at a time, through substitute_config_variable
SubstitutePath(path, values) ==
    IF \E i \in 1..Len(path) : substitute_config_variable(path[i], values).status = "raise"
    THEN [status |-> "raise", err |-> "SubstitutionError", out |-> path]
    ELSE [status |-> "ok", err |-> "",
          out |-> [i \in 1..Len(path) |-> substitute_config_variable(path[i], values).out]]

\* root_directory of lines 151-154
RootFor(self, defined_path) ==
    IF ~isabs(defined_path)
    THEN (IF self.root_directory # NoPath THEN self.root_directory ELSE curdir)
    ELSE <<>>

var_path(self, defined_path) == join(RootFor(self, defined_path), defined_path)

----------------------------------------------------------------------------
(* get_values of the concrete providers *)

RuntimeEnvironmentGetValues(self, h) == Ok(At(self.runtime_environment), h)

\* os.environ itself instead of a copy of it
EnvironmentGetValuesByReference(self, h) == Ok(At("environ"), h)

EnvironmentGetValues(self, h) == Ok(Fresh(h["environ"]), h)

CloudKeys == <<"GX_CLOUD_BASE_URL", "GX_CLOUD_ACCESS_TOKEN", "GX_CLOUD_ORGANIZATION_ID">>

CloudGetValues(self, h) ==
    Ok(Fresh((CloudKeys[1] :> self.cloud_config.base_url)
                @@ (CloudKeys[2] :> self.cloud_config.access_token)
                @@ (CloudKeys[3] :> self.cloud_config.organization_id)), h)

\* a handler that tolerates nothing: every OSError is raised again
HandleOSErrorRaisingAll(errno, h) == Raise(errno, h)

\* a handler that tolerates everything: every OSError becomes an empty mapping
HandleOSErrorSwallowingAll(errno, h) == Ok(Fresh(EmptyDict), h)

\* except OSError as e: if e.errno != errno.ENOENT: raise; return {}
HandleOSError(errno, h) ==
    IF errno # "ENOENT" THEN Raise(errno, h) ELSE Ok(Fresh(EmptyDict), h)

\* variables = dict(yaml.load(contents)) or {}, then the substitution and the return
VariablesOf(parsed, env_vars, h) ==
    IF parsed.none THEN Raise("TypeError", h)
    ELSE LET variables == parsed.map
             sub == substitute_all_config_variables(variables, env_vars)
         IN  IF sub.status = "raise" THEN Raise(sub.err, h) ELSE Ok(Fresh(sub.out), h)

ConfigurationVariablesGetValues(self, h, fsys) ==
    LET env_vars == h["environ"]
        defined == SubstitutePath(self.config_variables_file_path, env_vars)
    IN  IF defined.status = "raise" THEN Raise(defined.err, h)
        ELSE LET file == OpenRead(fsys, var_path(self, defined.out))
             IN  IF file.err # "" THEN HandleOSError(file.err, h)
                 ELSE LET parsed == YamlLoad(file.doc)
                      IN  IF parsed.status = "raise" THEN Raise(parsed.err, h)
                          ELSE VariablesOf(parsed, env_vars, h)

ConcreteGetValues(self, h, fsys) ==
    CASE self.kind = "RuntimeEnvironmentConfigurationProvider" -> RuntimeEnvironmentGetValues(self, h)
      [] self.kind = "EnvironmentConfigurationProvider" -> EnvironmentGetValues(self, h)
      [] self.kind = "ConfigurationVariablesConfigurationProvider" -> ConfigurationVariablesGetValues(self, h, fsys)
      [] self.kind = "CloudConfigurationProvider" -> CloudGetValues(self, h)

----------------------------------------------------------------------------
(* ConfigurationProvider: the registry and the aggregation *)

KindOf(id) == Instance(id).kind

RegisteredKinds(provs) == {KindOf(provs[i]) : i \in 1..Len(provs)}

\* a registration without the membership test: the instance of the kind is replaced in place
register_provider_overwriting(provs, id) ==
    IF KindOf(id) \in RegisteredKinds(provs)
    THEN [status |-> "ok", err |-> "",
          providers |-> [i \in 1..Len(provs) |-> IF KindOf(provs[i]) = KindOf(id) THEN id ELSE provs[i]]]
    ELSE [status |-> "ok", err |-> "", providers |-> Append(provs, id)]

\* register_provider: the new registry, or the ValueError of a kind already registered
register_provider(provs, id) ==
    IF KindOf(id) \in RegisteredKinds(provs)
    THEN [status |-> "raise", err |-> "ValueError", providers |-> provs]
    ELSE [status |-> "ok", err |-> "", providers |-> Append(provs, id)]

\* a lookup by subscript, self._providers[type_]: KeyError when the kind is not a key
get_provider_subscript(provs, kind) ==
    IF kind \in RegisteredKinds(provs)
    THEN [status |-> "ok", err |-> "",
          found |-> provs[CHOOSE i \in 1..Len(provs) : KindOf(provs[i]) = kind]]
    ELSE [status |-> "raise", err |-> "KeyError", found |-> "None"]

\* get_provider: self._providers.get(type_), "None" when the kind is not a key
get_provider(provs, kind) ==
    IF kind \in RegisteredKinds(provs)
    THEN [status |-> "ok", err |-> "",
          found |-> provs[CHOOSE i \in 1..Len(provs) : KindOf(provs[i]) = kind]]
    ELSE [status |-> "ok", err |-> "", found |-> "None"]

\* the merge accumulating into the first provider's own mapping
InitialValuesFromFirst(provs, h, fsys) ==
    IF Len(provs) = 0 THEN Fresh(EmptyDict)
    ELSE LET r == ConcreteGetValues(Instance(provs[1]), h, fsys)
         IN  IF r.status = "ok" THEN r.loc ELSE Fresh(EmptyDict)

\* values: Dict[str, str] = {}
InitialValues(provs, h, fsys) == Fresh(EmptyDict)

\* values.update(d) on the dict that `values` names
UpdateAt(values, d, h) ==
    IF values.ref \in Refs
    THEN [loc |-> values, heap |-> [h EXCEPT ![values.ref] = Update(h[values.ref], d)]]
    ELSE [loc |-> Fresh(Update(values.val, d)), heap |-> h]

\* a loop that gives up at the failing provider and returns what it has merged so far
OnProviderErrorReturnPartial(r, values, h) == Ok(values, h)

\* an exception of provider.get_values() leaves the loop and the call
OnProviderError(r, values, h) == Raise(r.err, h)

RECURSIVE AggregateFrom(_, _, _, _, _)
AggregateFrom(provs, i, values, h, fsys) ==
    IF i > Len(provs) THEN Ok(values, h)
    ELSE LET r == ConcreteGetValues(Instance(provs[i]), h, fsys)
         IN  IF r.status = "raise" THEN OnProviderError(r, values, h)
             ELSE LET u == UpdateAt(values, Deref(r.heap, r.loc), r.heap)
                  IN  AggregateFrom(provs, i + 1, u.loc, u.heap, fsys)

AggregateGetValues(provs, h, fsys) ==
    AggregateFrom(provs, 1, InitialValues(provs, h, fsys), h, fsys)

get_values(self, provs, h, fsys) ==
    IF self.kind = "ConfigurationProvider"
    THEN AggregateGetValues(provs, h, fsys)
    ELSE ConcreteGetValues(self, h, fsys)

----------------------------------------------------------------------------
(* AbstractConfigurationProvider.substitute_config *)

NoValues == [given |-> FALSE, map |-> EmptyDict]
Given(d) == [given |-> TRUE, map |-> d]

SubstOut(status, err, out, h) == [status |-> status, err |-> err, out |-> out, heap |-> h]

\* self._substitutor.substitute_all_config_variables(config, config_values)
UseSubstitutor(self, config, values, h) ==
    IF ~self.has_substitutor THEN SubstOut("raise", "AttributeError", config, h)
    ELSE LET s == substitute_config_variable(config, values)
         IN  SubstOut(s.status, s.err, s.out, h)

substitute_config(self, config, config_values, provs, h, fsys) ==
    IF config_values.given THEN UseSubstitutor(self, config, config_values.map, h)
    ELSE LET r == get_values(self, provs, h, fsys)
         IN  IF r.status = "raise" THEN SubstOut("raise", r.err, config, r.heap)
             ELSE UseSubstitutor(self, config, Deref(r.heap, r.loc), r.heap)

----------------------------------------------------------------------------
(* State and steps *)

Outcome(op, self, arg, status, err, loc, found, out) ==
    [op |-> op, self |-> self, arg |-> arg, status |-> status, err |-> err,
     loc |-> loc, found |-> found, out |-> out]

NoOutcome == Outcome("none", "", "", "ok", "", NoLoc, "None", "")

\* what the callers put in the dicts they hand to RuntimeEnvironmentConfigurationProvider
RuntimeDicts == [d1 |-> ("X" :> "runtime"),
                 d2 |-> ("Y" :> "runtime2") @@ ("GX_CLOUD_BASE_URL" :> "runtime2")]

HeapWith(env) == [r \in Refs |-> IF r = "environ" THEN env ELSE RuntimeDicts[r]]

NoFiles == [p \in FsPaths |-> NotFound]

Registrable == {"rt1", "rt2", "env1", "cv1", "cloud1"}

Configs == {"$X", "plain", "${"}

ConfigValues == {NoValues, Given("X" :> "given")}

StartEnvs == EnvDicts

StartFiles == {FileError("ENOENT"), FileError("EACCES"), FileText(NullDoc),
               FileText(MapDoc(("X" :> "file") @@ ("Z" :> "$Y")))}

Init ==
    /\ \E env \in StartEnvs : heap = HeapWith(env)
    /\ \E st \in StartFiles : fs = [NoFiles EXCEPT ![<<".", "cv.yml">>] = st]
    /\ _providers = <<>>
    /\ ret = NoOutcome
    /\ held = <<>>

register_provider_step(id) ==
    LET r == register_provider(_providers, id)
    IN  /\ _providers' = r.providers
        /\ ret' = Outcome("register_provider", "agg", id, r.status, r.err, NoLoc, "None", "")
        /\ UNCHANGED <<heap, fs, held>>

get_provider_step(kind) ==
    LET r == get_provider(_providers, kind)
    IN  /\ ret' = Outcome("get_provider", "agg", kind, r.status, r.err, NoLoc, r.found, "")
        /\ UNCHANGED <<heap, fs, _providers, held>>

get_values_step ==
    LET r == get_values(Aggregator, _providers, heap, fs)
    IN  /\ heap' = r.heap
        /\ ret' = Outcome("get_values", "agg", "", r.status, r.err, r.loc, "None", "")
        /\ UNCHANGED <<fs, _providers, held>>

substitute_config_step(id, config, config_values) ==
    LET r == substitute_config(Instance(id), config, config_values, _providers, heap, fs)
    IN  /\ heap' = r.heap
        /\ ret' = Outcome("substitute_config", id, config, r.status, r.err,
                          IF config_values.given THEN Fresh(config_values.map) ELSE NoLoc,
                          "None", r.out)
        /\ UNCHANGED <<fs, _providers, held>>

Next ==
    \/ \E id \in Registrable : register_provider_step(id)
    \/ \E kind \in Kinds : get_provider_step(kind)
    \/ get_values_step

Spec == Init /\ [][Next]_vars

----------------------------------------------------------------------------
(* substitute_config on every instance, under a fixed registry *)

SubstRegistries == {<<>>, <<"rt1", "env1">>, <<"cv1", "cloud1">>}

InitSubst ==
    /\ \E env \in StartEnvs : heap = HeapWith(env)
    /\ \E st \in StartFiles : fs = [NoFiles EXCEPT ![<<".", "cv.yml">>] = st]
    /\ _providers \in SubstRegistries
    /\ ret = NoOutcome
    /\ held = <<>>

NextSubst ==
    \E id \in DOMAIN Pool \cup {"agg"}, config \in Configs, cv \in ConfigValues :
        substitute_config_step(id, config, cv)

SpecSubst == InitSubst /\ [][NextSubst]_vars

----------------------------------------------------------------------------
(* The variables file and the environment changing under a fixed registry *)

putenv(k, v) ==
    /\ heap' = [heap EXCEPT !["environ"] = Update(@, k :> v)]
    /\ UNCHANGED <<fs, _providers, ret, held>>

unsetenv(k) ==
    /\ k \in DOMAIN heap["environ"]
    /\ heap' = [heap EXCEPT !["environ"] = [j \in DOMAIN @ \ {k} |-> @[j]]]
    /\ UNCHANGED <<fs, _providers, ret, held>>

write_file(p, st) ==
    /\ fs' = [fs EXCEPT ![p] = st]
    /\ UNCHANGED <<heap, _providers, ret, held>>

\* what the call finds at the path the provider names: the errno of open()/read(),
\* or what the text holds; "path" when the path expression itself is malformed
FileSeen(self, h, fsys) ==
    LET defined == SubstitutePath(self.config_variables_file_path, h["environ"])
        file == OpenRead(fsys, var_path(self, defined.out))
    IN  IF defined.status = "raise" THEN "path"
        ELSE IF file.err # "" THEN file.err
        ELSE IF file.doc.kind # "map" THEN file.doc.kind
        ELSE IF file.doc.map = EmptyDict THEN "emptymap"
        ELSE IF \E k \in DOMAIN file.doc.map : file.doc.map[k] = MalformedPlaceholder THEN "badmap"
        ELSE "map"

provider_get_values_step(id) ==
    LET r == get_values(Instance(id), _providers, heap, fs)
    IN  /\ heap' = r.heap
        /\ ret' = Outcome("provider_get_values", id, FileSeen(Instance(id), heap, fs),
                          r.status, r.err, r.loc, "None", "")
        /\ UNCHANGED <<fs, _providers, held>>

FileRegistries == {<<"rt1", "cv1">>, <<"cv2", "cloud1">>, <<"cv3", "rt1">>}

InitFile ==
    /\ heap = HeapWith(EmptyDict)
    /\ fs = NoFiles
    /\ _providers \in FileRegistries
    /\ ret = NoOutcome
    /\ held = <<>>

NextFile ==
    \/ \E k \in EnvKeys, v \in EnvVals : putenv(k, v)
    \/ \E k \in EnvKeys : unsetenv(k)
    \/ \E p \in FsPaths : \E st \in FileStatesAt(p) : write_file(p, st)
    \/ \E id \in CVIds : provider_get_values_step(id)
    \/ get_values_step

SpecFile == InitFile /\ [][NextFile]_vars

----------------------------------------------------------------------------
(* EnvironmentConfigurationProvider under a changing environment, the      *)
(* caller keeping every mapping it was given                               *)

env_get_values_step ==
    LET r == get_values(Instance("env1"), _providers, heap, fs)
    IN  /\ Len(held) < MaxHeld
        /\ heap' = r.heap
        /\ ret' = Outcome("provider_get_values", "env1", "", r.status, r.err, r.loc, "None", "")
        /\ held' = Append(held, [loc |-> r.loc, environ |-> heap["environ"]])
        /\ UNCHANGED <<fs, _providers>>

InitEnv ==
    /\ heap = HeapWith(EmptyDict)
    /\ fs = NoFiles
    /\ _providers = <<>>
    /\ ret = NoOutcome
    /\ held = <<>>

NextEnv ==
    \/ \E k \in EnvKeys, v \in EnvVals : putenv(k, v)
    \/ \E k \in EnvKeys : unsetenv(k)
    \/ env_get_values_step

SpecEnv == InitEnv /\ [][NextEnv]_vars

----------------------------------------------------------------------------
(* Properties *)

\* what the i-th registered provider's own get_values() yields in this state
OutputOf(i) == ConcreteGetValues(Instance(_providers[i]), heap, fs)

Supplied(i) == Deref(heap, OutputOf(i).loc)

AllSucceed == \A i \in 1..Len(_providers) : OutputOf(i).status = "ok"

FirstFailing == CHOOSE i \in 1..Len(_providers) :
                    /\ OutputOf(i).status = "raise"
                    /\ \A j \in 1..(i - 1) : OutputOf(j).status = "ok"

SuppliedKeys == UNION {DOMAIN Supplied(i) : i \in 1..Len(_providers)}

LatestSupplying(k) == CHOOSE i \in 1..Len(_providers) :
                          /\ k \in DOMAIN Supplied(i)
                          /\ \A j \in (i + 1)..Len(_providers) : k \notin DOMAIN Supplied(j)

\* C1: get_values() of the aggregating provider returns the merge of the registered
\* providers' mappings in registration order: its keys are the union of their keys
\* and each key has the value of the latest-registered provider that supplies it.
C1_MergeInRegistrationOrder ==
    [][(get_values_step /\ AllSucceed) =>
            /\ ret'.status = "ok"
            /\ DOMAIN Deref(heap', ret'.loc) = SuppliedKeys
            /\ \A k \in SuppliedKeys :
                   Deref(heap', ret'.loc)[k] = Supplied(LatestSupplying(k))[k]]_vars

C1_Witness ==
    /\ ret.op = "get_values" /\ ret.status = "ok"
    /\ _providers = <<"rt1", "env1">>
    /\ "X" \in DOMAIN heap["environ"] /\ heap["environ"]["X"] = "envval"
    /\ heap["d1"]["X"] = "runtime"
    /\ Deref(heap, ret.loc)["X"] = "envval"

\* C2: register_provider with an instance whose kind is already registered raises
\* and leaves the registry as it was: same kinds, same order, and get_provider of
\* every kind still gives the instance it gave before.
C2_DuplicateRejected ==
    [][\A id \in Registrable :
            (register_provider_step(id) /\ KindOf(id) \in RegisteredKinds(_providers)) =>
                /\ ret'.status = "raise"
                /\ _providers' = _providers
                /\ \A kind \in Kinds :
                       get_provider(_providers', kind).found = get_provider(_providers, kind).found]_vars

C2_Witness ==
    /\ ret.op = "register_provider" /\ ret.status = "raise" /\ ret.arg = "rt2"
    /\ \E i \in 1..Len(_providers) : _providers[i] = "rt1"

\* C3: get_provider(kind) gives the instance that was registered for the kind and
\* "None", never an error, when none was; a kind that is retrievable stays retrievable
\* with the same instance, and becomes retrievable only by a successful registration.
C3_Lookup ==
    /\ \A kind \in Kinds : get_provider(_providers, kind).found = "None"
    /\ [][/\ \A kind \in Kinds :
                 LET before == get_provider(_providers, kind)
                     after == get_provider(_providers', kind)
                 IN  /\ before.status = "ok" /\ after.status = "ok"
                     /\ before.found # "None" => after.found = before.found
                     /\ (before.found = "None" /\ after.found # "None") =>
                            /\ ret'.op = "register_provider" /\ ret'.status = "ok"
                            /\ ret'.arg = after.found /\ KindOf(ret'.arg) = kind
          /\ \A id \in Registrable :
                 (register_provider_step(id) /\ ret'.status = "ok") =>
                     get_provider(_providers', KindOf(id)).found = id
          /\ \A kind \in Kinds :
                 get_provider_step(kind) =>
                     /\ ret'.status = "ok"
                     /\ ret'.found \in {"None"} \cup {_providers[i] : i \in 1..Len(_providers)}
                     /\ ret'.found # "None" => KindOf(ret'.found) = kind
                     /\ ret'.found = "None" => kind \notin RegisteredKinds(_providers)]_vars

\* C3, the absent case: a kind never registered, looked up in a registry that holds others
C3_WitnessAbsent ==
    /\ ret.op = "get_provider" /\ ret.status = "ok" /\ ret.found = "None"
    /\ ret.arg = "CloudConfigurationProvider"
    /\ Len(_providers) >= 2

\* C3, the instance registered for the kind is found among several registered
C3_Witness ==
    /\ ret.op = "get_provider" /\ ret.found = "rt1"
    /\ Len(_providers) >= 2

\* what substitute_config is to return: the engine's result for the config and either
\* the supplied values or the provider's own get_values()
ExpectedSubstitution(id, config, config_values) ==
    IF config_values.given THEN substitute_config_variable(config, config_values.map)
    ELSE LET r == get_values(Instance(id), _providers, heap, fs)
         IN  IF r.status = "raise" THEN [status |-> "raise", err |-> r.err, out |-> config]
             ELSE substitute_config_variable(config, Deref(r.heap, r.loc))

\* C4: on every provider variant, substitute_config returns the substitution engine's
\* result for the config and the values (the supplied ones, or else the provider's own
\* get_values()), and fails only when the engine or get_values() fails.
C4_SubstituteConfigOnEveryVariant ==
    [][\A id \in DOMAIN Pool \cup {"agg"}, config \in Configs, cv \in ConfigValues :
            substitute_config_step(id, config, cv) =>
                LET e == ExpectedSubstitution(id, config, cv)
                IN  /\ ret'.status = e.status
                    /\ ret'.err = e.err
                    /\ e.status = "ok" => ret'.out = e.out]_vars

\* C5: when the variables file is read and parses to a null or empty result,
\* ConfigurationVariablesConfigurationProvider.get_values() returns an empty mapping.
C5_EmptyParseIsEmptyMapping ==
    (ret.op = "provider_get_values" /\ ret.arg \in {"null", "emptymap"}) =>
        (ret.status = "ok" /\ ret.loc = Fresh(EmptyDict))

\* the registry without its variables-file providers
WithoutVariablesFile(provs) ==
    SelectSeq(provs, LAMBDA id : id \notin CVIds)

\* every registered variables-file provider names a file that does not exist
RegisteredFilesMissing ==
    /\ \E i \in 1..Len(_providers) : _providers[i] \in CVIds
    /\ \A i \in 1..Len(_providers) :
           _providers[i] \in CVIds => FileSeen(Instance(_providers[i]), heap, fs) = "ENOENT"

\* C6: when the resolved path names a file that does not exist, get_values() of the
\* variables-file provider returns an empty mapping and raises nothing, and the
\* aggregating provider that holds it returns what the other providers supply.
C6_MissingFileIsEmptyMapping ==
    /\ []((ret.op = "provider_get_values" /\ ret.arg = "ENOENT") =>
              (ret.status = "ok" /\ ret.loc = Fresh(EmptyDict)))
    /\ [][(get_values_step /\ RegisteredFilesMissing) =>
              LET others == AggregateGetValues(WithoutVariablesFile(_providers), heap, fs)
              IN  /\ ret'.status = "ok"
                  /\ Deref(heap', ret'.loc) = Deref(others.heap, others.loc)]_vars

C6_Witness ==
    /\ ret.op = "provider_get_values" /\ ret.self = "cv2" /\ ret.arg = "ENOENT"
    /\ ret.status = "ok"
    /\ fs[<<".", "cv.yml">>].err = ""

\* the error each failure of the read, the parse or the substitution is raised as
RaisedAs == [EACCES |-> "EACCES", EISDIR |-> "EISDIR", EIO |-> "EIO",
             malformed |-> "YAMLError", path |-> "SubstitutionError",
             badmap |-> "SubstitutionError"]

\* C7: a failure of the read other than file-not-found, a parse error and an error of
\* the substitution engine reach the caller of get_values() as that error; none of
\* them becomes an empty mapping or any other returned value.
C7_OtherFailuresPropagate ==
    (ret.op = "provider_get_values" /\ ret.arg \in DOMAIN RaisedAs) =>
        (ret.status = "raise" /\ ret.err = RaisedAs[ret.arg] /\ ret.loc = NoLoc)

C7_Witness ==
    /\ ret.op = "provider_get_values" /\ ret.self = "cv1" /\ ret.arg = "EISDIR"
    /\ ret.status = "raise"

\* C8: when the get_values() of a registered provider fails, the aggregating
\* get_values() fails with that error, returns no mapping, and the registry is as before.
C8_NoPartialMerge ==
    [][(get_values_step /\ ~AllSucceed) =>
            /\ ret'.status = "raise"
            /\ ret'.err = OutputOf(FirstFailing).err
            /\ ret'.loc = NoLoc
            /\ _providers' = _providers]_vars

C8_Witness ==
    /\ ret.op = "get_values" /\ ret.status = "raise" /\ ret.err = "EACCES"
    /\ Len(_providers) >= 2 /\ _providers[1] = "rt1"

\* C9: every mapping EnvironmentConfigurationProvider.get_values() returned holds the
\* environment as it was at that call, whatever the environment has become since.
C9_SnapshotPerCall ==
    \A i \in 1..Len(held) : Deref(heap, held[i].loc) = held[i].environ

C9_Witness ==
    /\ Len(held) = 2
    /\ held[1].environ # held[2].environ
    /\ heap["environ"] # held[2].environ
    /\ heap["environ"] # held[1].environ

\* C10: the aggregating get_values() changes neither the registry nor any dict it does
\* not own: the callers' runtime_environment dicts, os.environ and the files are as before.
C10_GetValuesHasNoSideEffect ==
    [][get_values_step =>
            /\ _providers' = _providers
            /\ fs' = fs
            /\ \A r \in Refs : heap'[r] = heap[r]]_vars

C10_Witness ==
    /\ ret.op = "get_values" /\ ret.status = "ok"
    /\ Len(_providers) >= 2 /\ _providers[1] = "rt1"
    /\ Deref(heap, ret.loc) # heap["d1"]
    /\ Deref(heap, ret.loc)["X"] # heap["d1"]["X"]

====
